---- MODULE Spec2Model ----
(***************************************************************************)
(* Operation execution and retry classification of the MongoDB Node.js     *)
(* driver: the bulk write operations (update.ts, delete.ts), the           *)
(* SetProfilingLevelOperation and the Admin facade (lib/admin.js).         *)
(*                                                                         *)
(* One call is in flight at a time: it is started (an operation is         *)
(* constructed and executed, or an Admin method is called), the            *)
(* collaborator (server or db handle) answers once, the handler of the     *)
(* call runs, and the call is discarded.                                   *)
(***************************************************************************)
EXTENDS Integers, Sequences, FiniteSets, TLC

\* Longest array of sub-operations handed to a bulk operation.
MaxOps == 2

(***************************************************************************)
(* JavaScript values.  A value carries its type tag, its numeric payload   *)
(* and its string payload (or, for an object, its identity).               *)
(***************************************************************************)
JSValue(t, n, s) == [type |-> t, num |-> n, str |-> s]

Undefined == JSValue("undefined", 0, "")
Null      == JSValue("null", 0, "")
JSFalse   == JSValue("boolean", 0, "")
JSTrue    == JSValue("boolean", 1, "")
Num(n)    == JSValue("number", n, "")
Str(s)    == JSValue("string", 0, s)
Obj(id)   == JSValue("object", 0, id)
Fn(id)    == JSValue("function", 0, id)

JSBool(b) == IF b THEN JSTrue ELSE JSFalse

\* typeof v
typeof(v) == IF v.type = "null" THEN "object" ELSE v.type

\* v == null  (loose equality: undefined and null only)
LooseEqNull(v) == v.type \in {"undefined", "null"}

\* ToBoolean(v), as used by if (v), !v, v || w
Truthy(v) ==
  CASE v.type \in {"undefined", "null"} -> FALSE
    [] v.type = "boolean" -> v.num = 1
    [] v.type = "number"  -> v.num # 0
    [] v.type = "string"  -> v.str # ""
    [] OTHER -> TRUE

\* v > 0 for the values the model hands it: numbers and booleans compare by
\* their numeric value, null converts to +0 and undefined to NaN.
GreaterThanZero(v) ==
  CASE v.type \in {"number", "boolean"} -> v.num > 0
    [] OTHER -> FALSE

\* Array.prototype.every
Every(arr, P(_)) == \A i \in 1..Len(arr) : P(arr[i])

\* Array.prototype.some
Some(arr, P(_)) == \E i \in 1..Len(arr) : P(arr[i])

SeqsUpTo(S, n) == UNION {[1..k -> S] : k \in 0..n}

(***************************************************************************)
(* Aspects (operation.ts is outside the sources: the registry is the one   *)
(* the specification describes, a table from operation type to aspect set).*)
(***************************************************************************)
Aspect == {"RETRYABLE", "WRITE_OPERATION", "EXECUTE_WITH_SELECTION"}

BulkTypes == {"UpdateOperation", "DeleteOperation"}

CommandTypes == {"UpdateOneOperation", "UpdateManyOperation",
                 "DeleteOneOperation", "DeleteManyOperation",
                 "SetProfilingLevelOperation"}

OperationTypes == BulkTypes \cup CommandTypes

\* The two definitions of delete.ts found in the sources: lines 1-94 and
\* lines 96-180.
DeleteRevisions == {"delete.ts:1-94", "delete.ts:96-180"}

\* defineAspects(UpdateOperation, [...])
UpdateOperationAspects ==
  {"RETRYABLE", "WRITE_OPERATION", "EXECUTE_WITH_SELECTION"}

\* defineAspects(UpdateOneOperation, [...])
UpdateOneOperationAspects ==
  {"RETRYABLE", "WRITE_OPERATION", "EXECUTE_WITH_SELECTION"}

UpdateManyOperationAspects_Retryable ==
  {"RETRYABLE", "WRITE_OPERATION", "EXECUTE_WITH_SELECTION"}

\* defineAspects(UpdateManyOperation, [...])
UpdateManyOperationAspects == {"WRITE_OPERATION", "EXECUTE_WITH_SELECTION"}

\* defineAspects(DeleteOperation, [...]), the same in both definitions
DeleteOperationAspects ==
  {"RETRYABLE", "WRITE_OPERATION", "EXECUTE_WITH_SELECTION"}

\* defineAspects(DeleteOneOperation, [...]), the same in both definitions
DeleteOneOperationAspects ==
  {"RETRYABLE", "WRITE_OPERATION", "EXECUTE_WITH_SELECTION"}

\* defineAspects(DeleteManyOperation, [...]), the same in both definitions
DeleteManyOperationAspects == {"WRITE_OPERATION", "EXECUTE_WITH_SELECTION"}

\* defineAspects(SetProfilingLevelOperation, [...])
SetProfilingLevelOperationAspects == {"EXECUTE_WITH_SELECTION"}

\* The defineAspects calls in the order the modules run them.
Registrations ==
  << [type |-> "UpdateOperation",     list |-> UpdateOperationAspects],
     [type |-> "UpdateOneOperation",  list |-> UpdateOneOperationAspects],
     [type |-> "UpdateManyOperation", list |-> UpdateManyOperationAspects],
     [type |-> "DeleteOperation",     list |-> DeleteOperationAspects],
     [type |-> "DeleteOneOperation",  list |-> DeleteOneOperationAspects],
     [type |-> "DeleteManyOperation", list |-> DeleteManyOperationAspects],
     [type |-> "SetProfilingLevelOperation",
      list |-> SetProfilingLevelOperationAspects] >>

\* defineAspects(operationType, aspectList): the type's aspect set becomes
\* the set of the listed aspects.
defineAspects(table, type, list) == [table EXCEPT ![type] = list]

\* hasAspect(operationType, aspect)
hasAspect(table, type, aspect) == aspect \in table[type]

(***************************************************************************)
(* Retry eligibility predicates.                                           *)
(***************************************************************************)
\* Values of a sub-operation's multi flag (Undefined: the key is absent).
MultiValues == {Undefined, JSFalse, JSTrue}

\* Values of a sub-operation's limit (Undefined: the key is absent).
LimitValues == {Undefined, Num(-1), Num(0), Num(1)}

\* Sub-operation descriptors: the keys the predicates read.
UpdateSubOps == [multi : MultiValues, limit : {Undefined}]
DeleteSubOps == [multi : {Undefined}, limit : LimitValues]

UpdateOperation_canRetryWrite_Some(operations) ==
  JSBool(Some(operations,
              LAMBDA op : LooseEqNull(op.multi) \/ op.multi = JSFalse))

\* UpdateOperation: get canRetryWrite()
UpdateOperation_canRetryWrite(operations) ==
  JSBool(Every(operations,
               LAMBDA op : LooseEqNull(op.multi) \/ op.multi = JSFalse))

\* DeleteOperation: get canRetryWrite().  The first definition of the class
\* has the getter; the second has none, so the property reads undefined.
DeleteOperation_canRetryWrite(revision, operations) ==
  IF revision = "delete.ts:1-94"
  THEN JSBool(Every(operations,
                    LAMBDA op : IF typeof(op.limit) # "undefined"
                                THEN GreaterThanZero(op.limit)
                                ELSE TRUE))
  ELSE Undefined

(***************************************************************************)
(* The collaborator's answers: callback(err, doc).                         *)
(***************************************************************************)
\* The error a server or db handle reports (a MongoError object).
TransportError == Obj("MongoError")

\* err as the collaborator passes it: no error is null or undefined.
ReplyErrors == {Null, Undefined, TransportError}

OkValues     == {Num(1), Num(0), Num(2), Undefined}
ResultValues == {Undefined, Str("all good"), Str("exception caught"),
                 Str("index corrupt"), Num(7)}
ValidValues  == {Undefined, JSTrue, JSFalse, Num(0)}

\* Response documents: ok, result and valid are the keys the code reads
\* (Undefined: the key is absent).
Docs == [ok : OkValues, result : ResultValues, valid : ValidValues]

NoDoc == [ok |-> Undefined, result |-> Undefined, valid |-> Undefined]

\* An answer without an error carries a document; an answer with an error
\* may carry one or none.
Replies ==
  {[err |-> e, hasDoc |-> TRUE, doc |-> d] : e \in ReplyErrors, d \in Docs}
  \cup {[err |-> TransportError, hasDoc |-> FALSE, doc |-> NoDoc]}

NoReply == [err |-> Undefined, hasDoc |-> FALSE, doc |-> NoDoc]

\* The response document object itself, as handed on by reference.
DocRef == Obj("doc")

\* The second argument of the collaborator's callback.
ReplyValue(r) == IF r.hasDoc THEN DocRef ELSE Undefined

\* toError(doc): utils is outside the sources; a document becomes an error.
toError(doc) == Obj("toError(doc)")

\* One invocation callback(err, result).
Invocation(e, r) == [err |-> e, result |-> r]

(***************************************************************************)
(* SetProfilingLevelOperation                                              *)
(***************************************************************************)
LevelInputs == {Str("off"), Str("slow_only"), Str("all"), Str("bogus"),
                Num(2), Undefined}

levelValues_WithBogus ==
  {Str("off"), Str("slow_only"), Str("all"), Str("bogus")}

\* const levelValues = new Set(['off', 'slow_only', 'all'])
levelValues == {Str("off"), Str("slow_only"), Str("all")}

SetProfilingLevelOperation_profile_SlowIsAll(level) ==
  IF level = Str("off") THEN Num(0)
  ELSE IF level = Str("slow_only") THEN Num(2)
  ELSE IF level = Str("all") THEN Num(2)
  ELSE Num(0)

\* constructor: the profile value computed from the level
SetProfilingLevelOperation_profile(level) ==
  IF level = Str("off") THEN Num(0)
  ELSE IF level = Str("slow_only") THEN Num(1)
  ELSE IF level = Str("all") THEN Num(2)
  ELSE Num(0)

IllegalLevelError == Obj("Error: illegal profiling level value")
ProfileCommandError == Obj("Error with profile command")

SetProfilingLevelOperation_onReply_Profile(level, err, doc) ==
  IF LooseEqNull(err) /\ doc.ok = Num(1)
  THEN << Invocation(Undefined, SetProfilingLevelOperation_profile(level)) >>
  ELSE IF ~LooseEqNull(err)
       THEN << Invocation(err, Null) >>
       ELSE << Invocation(ProfileCommandError, Null) >>

\* execute: the callback given to executeCommand
SetProfilingLevelOperation_onReply(level, err, doc) ==
  IF LooseEqNull(err) /\ doc.ok = Num(1)
  THEN << Invocation(Undefined, level) >>
  ELSE IF ~LooseEqNull(err)
       THEN << Invocation(err, Null) >>
       ELSE << Invocation(ProfileCommandError, Null) >>

(***************************************************************************)
(* Admin helpers                                                           *)
(***************************************************************************)
serverStatus_onReply_NoOkCheck(err, doc) ==
  IF LooseEqNull(err)
  THEN << Invocation(Null, DocRef) >>
  ELSE IF Truthy(err)
       THEN << Invocation(err, JSFalse) >>
       ELSE << Invocation(toError(doc), JSFalse) >>

\* serverStatus: the callback given to executeDbAdminCommand
serverStatus_onReply(err, doc) ==
  IF LooseEqNull(err) /\ doc.ok = Num(1)
  THEN << Invocation(Null, DocRef) >>
  ELSE IF Truthy(err)
       THEN << Invocation(err, JSFalse) >>
       ELSE << Invocation(toError(doc), JSFalse) >>

replSetGetStatus_onReply_NoReturn(err, doc) ==
  (IF LooseEqNull(err) /\ doc.ok = Num(1)
   THEN << Invocation(Null, DocRef) >> ELSE << >>)
  \o (IF Truthy(err)
      THEN << Invocation(err, JSFalse) >>
      ELSE << Invocation(toError(doc), JSFalse) >>)

replSetGetStatus_onReply_Wraps(err, doc) ==
  IF LooseEqNull(err) /\ doc.ok = Num(1)
  THEN << Invocation(Null, DocRef) >>
  ELSE << Invocation(toError(doc), JSFalse) >>

\* replSetGetStatus: the callback given to executeDbAdminCommand
replSetGetStatus_onReply(err, doc) ==
  IF LooseEqNull(err) /\ doc.ok = Num(1)
  THEN << Invocation(Null, DocRef) >>
  ELSE IF Truthy(err)
       THEN << Invocation(err, JSFalse) >>
       ELSE << Invocation(toError(doc), JSFalse) >>

\* doc.result.match(/exception|corrupt/) != null, on the strings of
\* ResultValues
MatchesExceptionOrCorrupt(s) ==
  s \in {"exception caught", "index corrupt"}

ValidateCommandError == Obj("Error with validate command")
ValidationDataError  == Obj("Error with validation data")
InvalidCollectionError == Obj("Error: invalid collection")

validateCollection_onReply_ValidFirst(err, doc) ==
  IF ~LooseEqNull(err) THEN << Invocation(err, Null) >>
  ELSE IF ~LooseEqNull(doc.valid) /\ ~Truthy(doc.valid)
       THEN << Invocation(InvalidCollectionError, Null) >>
  ELSE IF doc.ok = Num(0)
       THEN << Invocation(ValidateCommandError, Null) >>
  ELSE IF ~LooseEqNull(doc.result) /\ doc.result.type # "string"
       THEN << Invocation(ValidationDataError, Null) >>
  ELSE IF ~LooseEqNull(doc.result) /\ MatchesExceptionOrCorrupt(doc.result.str)
       THEN << Invocation(InvalidCollectionError, Null) >>
  ELSE << Invocation(Null, DocRef) >>

\* validateCollection: the callback given to db.command
validateCollection_onReply(err, doc) ==
  IF ~LooseEqNull(err) THEN << Invocation(err, Null) >>
  ELSE IF doc.ok = Num(0)
       THEN << Invocation(ValidateCommandError, Null) >>
  ELSE IF ~LooseEqNull(doc.result) /\ doc.result.type # "string"
       THEN << Invocation(ValidationDataError, Null) >>
  ELSE IF ~LooseEqNull(doc.result) /\ MatchesExceptionOrCorrupt(doc.result.str)
       THEN << Invocation(InvalidCollectionError, Null) >>
  ELSE IF ~LooseEqNull(doc.valid) /\ ~Truthy(doc.valid)
       THEN << Invocation(InvalidCollectionError, Null) >>
  ELSE << Invocation(Null, DocRef) >>

(***************************************************************************)
(* Admin methods: how each one reads its arguments and what it hands to    *)
(* executeOperation or to the db handle.                                   *)
(***************************************************************************)
UserCallback == Fn("callback")
CommandArg   == Obj("command")
OptionsArg   == Obj("options")
EmptyObject  == Obj("{}")
AdminThis    == Obj("admin")

\* The n-th formal parameter of a call with the given arguments.
Param(arguments, n) ==
  IF n <= Len(arguments) THEN arguments[n] ELSE Undefined

\* Array.prototype.slice.call(arguments, k)
Slice(arguments, k) == SubSeq(arguments, k + 1, Len(arguments))

\* typeof args[args.length - 1] === 'function'
LastIsFunction(args) ==
  Len(args) > 0 /\ typeof(args[Len(args)]) = "function"

PopCallback_Never(args) == [callback |-> Undefined, rest |-> args]

\* callback = typeof args[args.length - 1] === 'function' ? args.pop() : undefined
PopCallback(args) ==
  IF LastIsFunction(args)
  THEN [callback |-> args[Len(args)], rest |-> SubSeq(args, 1, Len(args) - 1)]
  ELSE [callback |-> Undefined, rest |-> args]

\* options = args.length ? args.shift() : {}
ShiftOptions(rest) == IF Len(rest) > 0 THEN Head(rest) ELSE EmptyObject

\* What an Admin method does with its arguments.
Dispatch(route, inner, args) == [route |-> route, inner |-> inner, args |-> args]

\* Admin.prototype.command
Admin_command(arguments) ==
  LET p == PopCallback(Slice(arguments, 1))
  IN Dispatch("executeOperation", "db.executeDbAdminCommand",
              << Param(arguments, 1), ShiftOptions(p.rest), p.callback >>)

\* Admin.prototype.buildInfo
Admin_buildInfo(arguments) ==
  Dispatch("executeOperation", "serverInfo", << Param(arguments, 1) >>)

\* Admin.prototype.serverInfo
Admin_serverInfo(arguments) ==
  Dispatch("executeOperation", "db.executeDbAdminCommand",
           << Obj("{buildinfo: 1}"), Param(arguments, 1) >>)

\* Admin.prototype.serverStatus
Admin_serverStatus(arguments) ==
  Dispatch("executeOperation", "serverStatus",
           << AdminThis, Param(arguments, 1) >>)

\* Admin.prototype.ping
Admin_ping(arguments) ==
  LET p == PopCallback(Slice(arguments, 0))
  IN Dispatch("executeOperation", "db.executeDbAdminCommand",
              << Obj("{ping: 1}"), p.callback >>)

\* Admin.prototype.addUser
Admin_addUser(arguments) ==
  LET p == PopCallback(Slice(arguments, 2))
  IN Dispatch("executeOperation", "db.addUser",
              << Param(arguments, 1), Param(arguments, 2),
                 Obj("writeConcern(options)"), p.callback >>)

\* Admin.prototype.removeUser
Admin_removeUser(arguments) ==
  LET p == PopCallback(Slice(arguments, 1))
  IN Dispatch("executeOperation", "db.removeUser",
              << Param(arguments, 1), Obj("writeConcern(options)"),
                 p.callback >>)

\* Command and options documents of validateCollection and listDatabases:
\* key -> value (Undefined: the key is absent).
DocumentKeys == {"listDatabases", "validate", "nameOnly", "filter", "full"}
EmptyDocument == [k \in DocumentKeys |-> Undefined]

\* The options objects a caller passes to validateCollection / listDatabases.
AdminOptionInputs ==
  { [EmptyDocument EXCEPT !["nameOnly"] = n, !["filter"] = f, !["full"] = u] :
      n \in {Undefined, JSTrue, JSFalse}, f \in {Undefined, Str("x")},
      u \in {Undefined, JSTrue} }

\* The options document behind an argument: the caller's object when the
\* argument is that object, no keys otherwise.
DocumentOf(value, options) ==
  IF value = OptionsArg THEN options ELSE EmptyDocument

\* assign(target, source): utils is outside the sources; every key of
\* source is copied onto target.
assign(target, source) ==
  [k \in DocumentKeys |->
     IF source[k] # Undefined THEN source[k] ELSE target[k]]

\* Number(value)
Number(value) ==
  IF value = JSTrue THEN Num(1)
  ELSE IF value \in {JSFalse, Null} THEN Num(0)
  ELSE IF value.type = "number" THEN value
  ELSE JSValue("number", 0, "NaN")

\* validateCollection: command = { validate: collectionName }, decorated
\* with every own key of options
validateCollection_command(collectionName, options) ==
  [k \in DocumentKeys |->
     IF options[k] # Undefined THEN options[k]
     ELSE IF k = "validate" THEN collectionName
     ELSE Undefined]

\* Admin.prototype.validateCollection; options is the content of the
\* caller's options object, and the helper is handed that content.
Admin_validateCollection(arguments, options) ==
  LET p == PopCallback(Slice(arguments, 1))
      shifted == ShiftOptions(p.rest)
      handed == IF Truthy(shifted) THEN DocumentOf(shifted, options)
                ELSE EmptyDocument
  IN Dispatch("executeOperation", "validateCollection",
              << AdminThis, Param(arguments, 1), handed, p.callback >>)

\* Admin.prototype.listDatabases: cmd = assign({listDatabases: 1}, options)
\* with a truthy nameOnly cast to a number
Admin_listDatabases_cmd(arguments, options) ==
  LET cmd == assign([EmptyDocument EXCEPT !["listDatabases"] = Num(1)],
                    DocumentOf(Param(arguments, 1), options))
  IN IF Truthy(cmd["nameOnly"])
     THEN [cmd EXCEPT !["nameOnly"] = Number(cmd["nameOnly"])]
     ELSE cmd

Admin_listDatabases_NoDirect(arguments, options) ==
  Dispatch("executeOperation", "db.executeDbAdminCommand",
           << Admin_listDatabases_cmd(arguments, options), EmptyObject,
              Param(arguments, 2) >>)

\* Admin.prototype.listDatabases; options is the content of the caller's
\* options object.
Admin_listDatabases(arguments, options) ==
  IF typeof(Param(arguments, 1)) = "function"
  THEN Dispatch("direct", "db.executeDbAdminCommand",
                << [EmptyDocument EXCEPT !["listDatabases"] = Num(1)],
                   EmptyObject, Param(arguments, 1) >>)
  ELSE Dispatch("executeOperation", "db.executeDbAdminCommand",
                << Admin_listDatabases_cmd(arguments, options), EmptyObject,
                   Param(arguments, 2) >>)

\* Admin.prototype.replSetGetStatus
Admin_replSetGetStatus(arguments) ==
  Dispatch("executeOperation", "replSetGetStatus",
           << AdminThis, Param(arguments, 1) >>)

(***************************************************************************)
(* The write-concern resolver of addUser / removeUser.  Option objects are  *)
(* mutable, so they live in a heap: reference -> the keys the code reads    *)
(* or writes (Undefined: the key is absent).                                *)
(***************************************************************************)
DbWriteConcernRef == Obj("db.writeConcern")
CloneRef          == Obj("shallowClone(options)")
WriteConcernRefs  == {OptionsArg, EmptyObject, DbWriteConcernRef, CloneRef}

NoWriteConcern ==
  [w |-> Undefined, wtimeout |-> Undefined, j |-> Undefined,
   fsync |-> Undefined, dbName |-> Undefined]

\* The options objects a caller passes to addUser / removeUser.
WriteConcernInputs ==
  { [NoWriteConcern EXCEPT !.w = w, !.wtimeout = t, !.j = j, !.fsync = f] :
      w \in {Undefined, Num(0), Num(1)}, t \in {Undefined, Num(0)},
      j \in {Undefined, JSFalse}, f \in {Undefined, JSFalse} }

\* The write concerns a db handle is configured with.
DbWriteConcerns ==
  { [NoWriteConcern EXCEPT !.w = Num(2)],
    [NoWriteConcern EXCEPT !.w = Num(2), !.wtimeout = Num(50),
                           !.j = JSTrue, !.fsync = JSTrue] }

\* self.s.db: the db handle with or without a writeConcern object.
DbHandles == [writeConcern : {Undefined, DbWriteConcernRef}]
NoDb == [writeConcern |-> Undefined]

NoHeap == [r \in WriteConcernRefs |-> NoWriteConcern]

\* shallowClone(options): utils is outside the sources; a new object with
\* the keys and values of obj.
shallowClone(h, obj) ==
  [heap |-> [h EXCEPT ![CloneRef] = h[obj]], ref |-> CloneRef]

writeConcern_InPlace(h, options, db) ==
  LET o == h[options]
  IN IF Truthy(o.w) \/ Truthy(o.wtimeout) \/ Truthy(o.j) \/ Truthy(o.fsync)
     THEN [heap |-> h, ref |-> options]
     ELSE IF Truthy(db.writeConcern)
          THEN LET d == h[db.writeConcern]
               IN [heap |-> [h EXCEPT ![options] =
                       [o EXCEPT !.w = IF Truthy(o.w) THEN d.w ELSE o.w,
                                 !.wtimeout = IF Truthy(o.wtimeout)
                                              THEN d.wtimeout ELSE o.wtimeout,
                                 !.j = IF Truthy(o.j) THEN d.j ELSE o.j,
                                 !.fsync = IF Truthy(o.fsync)
                                           THEN d.fsync ELSE o.fsync]],
                   ref |-> options]
          ELSE [heap |-> h, ref |-> options]

writeConcern_Overlay(h, options, db) ==
  LET c == shallowClone(h, options)
      o == c.heap[c.ref]
  IN IF Truthy(o.w) \/ Truthy(o.wtimeout) \/ Truthy(o.j) \/ Truthy(o.fsync)
     THEN c
     ELSE IF Truthy(db.writeConcern)
          THEN LET d == c.heap[db.writeConcern]
               IN [heap |-> [c.heap EXCEPT ![c.ref] =
                       [o EXCEPT !.w = d.w, !.wtimeout = d.wtimeout,
                                 !.j = d.j, !.fsync = d.fsync]],
                   ref |-> c.ref]
          ELSE c

\* var writeConcern = function(options, db): the heap after the call and
\* the reference returned.
writeConcern(h, options, db) ==
  LET c == shallowClone(h, options)
      o == c.heap[c.ref]
  IN IF Truthy(o.w) \/ Truthy(o.wtimeout) \/ Truthy(o.j) \/ Truthy(o.fsync)
     THEN c
     ELSE IF Truthy(db.writeConcern)
          THEN LET d == c.heap[db.writeConcern]
               IN [heap |-> [c.heap EXCEPT ![c.ref] =
                       [o EXCEPT !.w = IF Truthy(o.w) THEN d.w ELSE o.w,
                                 !.wtimeout = IF Truthy(o.wtimeout)
                                              THEN d.wtimeout ELSE o.wtimeout,
                                 !.j = IF Truthy(o.j) THEN d.j ELSE o.j,
                                 !.fsync = IF Truthy(o.fsync)
                                           THEN d.fsync ELSE o.fsync]],
                   ref |-> c.ref]
          ELSE c

\* addUser / removeUser, from the argument tail to the options handed on:
\* options = args.length ? args.shift() : {}; options = options || {};
\* options = writeConcern(options, self.s.db); options.dbName = 'admin'
Admin_userOptions(h, rest, db) ==
  LET shifted == ShiftOptions(rest)
      options == IF Truthy(shifted) THEN shifted ELSE EmptyObject
      r       == writeConcern(h, options, db)
  IN [heap |-> [r.heap EXCEPT ![r.ref].dbName = Str("admin")], ref |-> r.ref]

\* Admin.prototype.addUser: the options object handed to db.addUser
Admin_addUser_options(h, arguments, db) ==
  Admin_userOptions(h, PopCallback(Slice(arguments, 2)).rest, db)

\* Admin.prototype.removeUser: the options object handed to db.removeUser
Admin_removeUser_options(h, arguments, db) ==
  Admin_userOptions(h, PopCallback(Slice(arguments, 1)).rest, db)

\* The heap when the caller calls: its options object, if it passes one,
\* and the db's writeConcern object, if the db has one.
CallerHeap(arguments, o, db, d) ==
  [NoHeap EXCEPT
     ![OptionsArg] = IF \E i \in 1..Len(arguments) : arguments[i] = OptionsArg
                     THEN o ELSE NoWriteConcern,
     ![DbWriteConcernRef] = IF db.writeConcern = DbWriteConcernRef
                            THEN d ELSE NoWriteConcern]

\* The argument lists a caller passes: the required parameters, then the
\* options or not, then the callback or not.
Tails == { << >>, << OptionsArg >>, << UserCallback >>,
           << OptionsArg, UserCallback >> }
CallbackOnly == { << >>, << UserCallback >> }

(***************************************************************************)
(* executeOperation(context, invocation, args): utils is outside the       *)
(* sources; this is the executor the specification describes.              *)
(***************************************************************************)
\* The completion path chosen from the final element of args.
executeOperation_mode(args) ==
  IF LastIsFunction(args) THEN "callback" ELSE "promise"

\* What a caller receives for one completion (error, result) of the
\* invocation: (error, null) or (null, result).
executeOperation_deliver(inv) ==
  IF ~LooseEqNull(inv.err)
  THEN Invocation(inv.err, Null)
  ELSE Invocation(Null, inv.result)

\* What a call of the db handle returns: nothing when it is given a
\* callback, a promise otherwise.
dbHandle_returns(args) ==
  IF LastIsFunction(args) THEN "undefined" ELSE "promise"

(***************************************************************************)
(* State                                                                   *)
(***************************************************************************)
VARIABLES
  aspects,    \* the aspect table: operation type -> set of aspects
  loaded,     \* how many defineAspects calls have run
  call,       \* the call in flight
  phase,      \* "idle", "pending" (the collaborator has the command),
              \* "completed", "thrown" (the constructor threw), "shared"
              \* (operations are built from one options object)
  issued,     \* the commands handed to the collaborator by this call
  reply,      \* the collaborator's answer to this call
  doneCalls,  \* the invocations of the completion callback of execute / of the helper
  doneSync,   \* the completion callback was invoked before execute returned
  userCalls,  \* the invocations of the callback the caller of an Admin method passed
  promise,    \* the promise an Admin method returned
  returned,   \* what the Admin method returned
  heap,       \* the option objects of an addUser / removeUser call
  thrown,     \* what the constructor of the operation threw
  bags,       \* the options bags of operations built from one options object
  instances   \* the operation instances built from that options object

vars == << aspects, loaded, call, phase, issued, reply, doneCalls, doneSync,
           userCalls, promise, returned, heap, thrown, bags, instances >>

\* The options bag of a command operation: the keys execute writes.
OptionValues == {Undefined, JSTrue, JSFalse}
SingleValues == OptionValues \cup {Null, Num(1), Str("yes")}
OptionBags == [multi : OptionValues, single : SingleValues]
NoOptions == [multi |-> Undefined, single |-> Undefined]

\* Operation instances built from one options object of the caller: the
\* bags are mutable objects, reference -> bag.
MaxInstances == 2
InstanceIds == 1..MaxInstances
OwnBag(i) == [Obj("this.options") EXCEPT !.num = i]
BagRefs == {OptionsArg} \cup {OwnBag(i) : i \in InstanceIds}
NoBags == [r \in BagRefs |-> NoOptions]
InstanceTypes == {"UpdateOneOperation", "UpdateManyOperation",
                  "DeleteOneOperation", "DeleteManyOperation"}
NoInstance ==
  [type |-> "", state |-> "none", options |-> Undefined,
   delegate |-> Undefined, sent |-> NoOptions]
NoInstances == [i \in InstanceIds |-> NoInstance]

NoPromise == [state |-> "none", value |-> Undefined, settled |-> 0]

NoCall ==
  [name |-> "", kind |-> "none", definition |-> "", level |-> Undefined,
   operations |-> << >>, options |-> NoOptions, arguments |-> << >>,
   route |-> "", inner |-> "", args |-> << >>, layers |-> 0,
   heap0 |-> NoHeap, db |-> NoDb, passed |-> Undefined,
   supplied |-> NoOptions, filter |-> Undefined, update |-> << >>]

OperationCall(name, definition, level, operations, options) ==
  [NoCall EXCEPT !.name = name, !.kind = "operation", !.route = "execute",
                 !.definition = definition, !.level = level,
                 !.operations = operations, !.options = options]

Command(target, cmd, value, options) ==
  [target |-> target, cmd |-> cmd, value |-> value, options |-> options]

Init ==
  /\ aspects = [t \in OperationTypes |-> {}]
  /\ loaded = 0
  /\ call = NoCall
  /\ phase = "idle"
  /\ issued = << >>
  /\ reply = NoReply
  /\ doneCalls = << >>
  /\ doneSync = FALSE
  /\ userCalls = << >>
  /\ promise = NoPromise
  /\ returned = ""
  /\ heap = NoHeap
  /\ thrown = Undefined
  /\ bags = NoBags
  /\ instances = NoInstances

\* Module load: the next defineAspects call runs.
LoadModule ==
  /\ loaded < Len(Registrations)
  /\ loaded' = loaded + 1
  /\ aspects' = defineAspects(aspects, Registrations[loaded + 1].type,
                              Registrations[loaded + 1].list)
  /\ UNCHANGED << call, phase, issued, reply, doneCalls, doneSync,
                  userCalls, promise, returned, heap, thrown, bags,
                  instances >>

Ready == loaded = Len(Registrations) /\ phase = "idle"

\* execute hands one command to the collaborator and returns.
Issue(c, command) ==
  /\ call' = c
  /\ phase' = "pending"
  /\ issued' = << command >>
  /\ UNCHANGED << aspects, loaded, reply, doneCalls, doneSync,
                  userCalls, promise, returned, heap, thrown, bags,
                  instances >>

\* UpdateOperation.execute
UpdateOperation_execute ==
  /\ Ready
  /\ \E ops \in SeqsUpTo(UpdateSubOps, MaxOps) :
       Issue(OperationCall("UpdateOperation", "", Undefined, ops, NoOptions),
             Command("server.update", "update", Undefined, NoOptions))

\* DeleteOperation.execute, of either definition of the class
DeleteOperation_execute ==
  /\ Ready
  /\ \E ops \in SeqsUpTo(DeleteSubOps, MaxOps), def \in DeleteRevisions :
       Issue(OperationCall("DeleteOperation", def, Undefined, ops, NoOptions),
             Command("server.remove", "delete", Undefined, NoOptions))

\* The update documents a caller passes, as their top-level keys.
UpdateDocuments == { << "$set" >>, << "a" >> }

\* The filters a caller passes.
FilterValues == { Obj("{a: 1}"), Null, Str("a") }

AtomicOperatorKeys == {"$set", "$inc", "$unset"}

\* hasAtomicOperators(update): utils is outside the sources; the update
\* document has an atomic-update operator.
hasAtomicOperators(update) ==
  \E i \in 1..Len(update) : update[i] \in AtomicOperatorKeys

\* isObject of node's util: arg !== null && typeof arg === 'object'
isObject(arg) == arg # Null /\ typeof(arg) = "object"

AtomicOperatorsError == Obj("TypeError: Update document requires atomic operators")
FilterRequiredError  == Obj("TypeError: filter is a required parameter")

\* new UpdateOneOperation(collection, filter, update, options): what the
\* constructor throws (Undefined: nothing).
UpdateOneOperation_constructor(update) ==
  IF ~hasAtomicOperators(update) THEN AtomicOperatorsError ELSE Undefined

\* new UpdateManyOperation(collection, filter, update, options)
UpdateManyOperation_constructor(update) == Undefined

\* new DeleteOneOperation(collection, filter, options), of either definition
DeleteOneOperation_constructor(revision, filter) == Undefined

\* new DeleteManyOperation(collection, filter, options): the first
\* definition tests the filter, the second does not.
DeleteManyOperation_constructor(revision, filter) ==
  IF revision = "delete.ts:1-94" /\ ~isObject(filter)
  THEN FilterRequiredError
  ELSE Undefined

UpdateOneOperation_options_Kept(o) == o

\* UpdateOneOperation.execute: options.multi = false
UpdateOneOperation_options(o) == [o EXCEPT !.multi = JSFalse]

\* UpdateManyOperation.execute: options.multi = true
UpdateManyOperation_options(o) == [o EXCEPT !.multi = JSTrue]

\* DeleteOneOperation.execute: options.single = true
DeleteOneOperation_options(o) == [o EXCEPT !.single = JSTrue]

DeleteManyOperation_options_Forced(o) == [o EXCEPT !.single = JSFalse]

\* DeleteManyOperation.execute:
\* if (typeof options.single !== 'boolean') options.single = false
DeleteManyOperation_options(o) ==
  IF typeof(o.single) # "boolean" THEN [o EXCEPT !.single = JSFalse] ELSE o

\* The constructor throws: there is no instance to execute.
Throw(c, error) ==
  /\ call' = c
  /\ phase' = "thrown"
  /\ thrown' = error
  /\ UNCHANGED << aspects, loaded, issued, reply, doneCalls, doneSync,
                  userCalls, promise, returned, heap, bags, instances >>

\* new Operation(...) and then its execute: c is the instance as
\* constructed, options its bag after execute's write.
ConstructAndExecute(c, error, options, target, cmd) ==
  IF error # Undefined
  THEN Throw(c, error)
  ELSE Issue([c EXCEPT !.options = options],
             Command(target, cmd, Undefined, options))

\* new UpdateOneOperation(...).execute(server, callback)
UpdateOneOperation_execute ==
  /\ Ready
  /\ \E o \in OptionBags, u \in UpdateDocuments :
       ConstructAndExecute(
         [OperationCall("UpdateOneOperation", "", Undefined, << >>, o)
            EXCEPT !.supplied = o, !.update = u],
         UpdateOneOperation_constructor(u),
         UpdateOneOperation_options(o), "updateDocuments", "update")

\* new UpdateManyOperation(...).execute(server, callback)
UpdateManyOperation_execute ==
  /\ Ready
  /\ \E o \in OptionBags, u \in UpdateDocuments :
       ConstructAndExecute(
         [OperationCall("UpdateManyOperation", "", Undefined, << >>, o)
            EXCEPT !.supplied = o, !.update = u],
         UpdateManyOperation_constructor(u),
         UpdateManyOperation_options(o), "updateDocuments", "update")

\* new DeleteOneOperation(...).execute(server, callback), of either definition
DeleteOneOperation_execute ==
  /\ Ready
  /\ \E o \in OptionBags, f \in FilterValues, def \in DeleteRevisions :
       ConstructAndExecute(
         [OperationCall("DeleteOneOperation", def, Undefined, << >>, o)
            EXCEPT !.supplied = o, !.filter = f],
         DeleteOneOperation_constructor(def, f),
         DeleteOneOperation_options(o), "removeDocuments", "delete")

\* new DeleteManyOperation(...).execute(server, callback), of either definition
DeleteManyOperation_execute ==
  /\ Ready
  /\ \E o \in OptionBags, f \in FilterValues, def \in DeleteRevisions :
       ConstructAndExecute(
         [OperationCall("DeleteManyOperation", def, Undefined, << >>, o)
            EXCEPT !.supplied = o, !.filter = f],
         DeleteManyOperation_constructor(def, f),
         DeleteManyOperation_options(o), "removeDocuments", "delete")

OperationBase_constructor_Shared(b, i, options) ==
  [bags |-> b, ref |-> options]

\* super(collection, options) of the four constructors: operation.ts and
\* command.ts are outside the sources; the instance gets a bag of its own
\* with the keys and values of the options it was given.
OperationBase_constructor(b, i, options) ==
  [bags |-> [b EXCEPT ![OwnBag(i)] = b[options]], ref |-> OwnBag(i)]

\* execute's write to this.options, by operation type.
Operation_options(type, o) ==
  CASE type = "UpdateOneOperation" -> UpdateOneOperation_options(o)
    [] type = "UpdateManyOperation" -> UpdateManyOperation_options(o)
    [] type = "DeleteOneOperation" -> DeleteOneOperation_options(o)
    [] type = "DeleteManyOperation" -> DeleteManyOperation_options(o)

\* The caller makes one options object to build several operations from.
ShareOptions ==
  /\ Ready
  /\ \E o \in OptionBags :
       /\ bags' = [NoBags EXCEPT ![OptionsArg] = o]
       /\ call' = [NoCall EXCEPT !.kind = "instances", !.supplied = o]
  /\ phase' = "shared"
  /\ instances' = NoInstances
  /\ UNCHANGED << aspects, loaded, issued, reply, doneCalls, doneSync,
                  userCalls, promise, returned, heap, thrown >>

\* new XOperation(collection, ..., options) with the shared options object
\* and valid arguments.
ConstructInstance ==
  /\ phase = "shared"
  /\ \E i \in InstanceIds, type \in InstanceTypes :
       /\ instances[i].state = "none"
       /\ LET r == OperationBase_constructor(bags, i, OptionsArg)
          IN /\ bags' = r.bags
             /\ instances' = [instances EXCEPT ![i] =
                   [NoInstance EXCEPT !.type = type, !.state = "constructed",
                                      !.options = r.ref]]
  /\ UNCHANGED << aspects, loaded, call, phase, issued, reply, doneCalls,
                  doneSync, userCalls, promise, returned, heap, thrown >>

\* execute of one of the instances: const options = this.options, the
\* write to it, and the bag handed to updateDocuments / removeDocuments.
ExecuteInstance ==
  /\ phase = "shared"
  /\ \E i \in InstanceIds :
       /\ instances[i].state = "constructed"
       /\ LET ref == instances[i].options
              bag == Operation_options(instances[i].type, bags[ref])
          IN /\ bags' = [bags EXCEPT ![ref] = bag]
             /\ instances' = [instances EXCEPT ![i] =
                   [@ EXCEPT !.state = "executed", !.delegate = ref,
                             !.sent = bag]]
  /\ UNCHANGED << aspects, loaded, call, phase, issued, reply, doneCalls,
                  doneSync, userCalls, promise, returned, heap, thrown >>

\* SetProfilingLevelOperation.execute: levelValues.has(level)
SetProfilingLevelOperation_legal(level) == level \in levelValues

\* SetProfilingLevelOperation.execute
SetProfilingLevelOperation_execute ==
  /\ Ready
  /\ \E level \in LevelInputs :
       LET c == OperationCall("SetProfilingLevelOperation", "", level, << >>,
                              NoOptions)
       IN IF ~SetProfilingLevelOperation_legal(level)
          THEN /\ call' = c
               /\ phase' = "completed"
               /\ doneCalls' = << Invocation(IllegalLevelError, Undefined) >>
               /\ doneSync' = TRUE
               /\ UNCHANGED << aspects, loaded, issued, reply, userCalls,
                               promise, returned, heap, thrown, bags,
                               instances >>
          ELSE Issue(c, Command("executeCommand", "profile",
                                SetProfilingLevelOperation_profile(level),
                                NoOptions))

(***************************************************************************)
(* Admin methods                                                           *)
(***************************************************************************)
\* The command the invocation hands to the db handle.
InnerCommand(d) ==
  CASE d.inner = "serverStatus" ->
         Command("db.executeDbAdminCommand", "serverStatus", Num(1), NoOptions)
    [] d.inner = "replSetGetStatus" ->
         Command("db.executeDbAdminCommand", "replSetGetStatus", Num(1), NoOptions)
    [] d.inner = "validateCollection" ->
         Command("db.command", "validate",
                 validateCollection_command(d.args[2], d.args[3]), NoOptions)
    [] d.inner = "serverInfo" ->
         Command("db.executeDbAdminCommand", "buildinfo", Num(1), NoOptions)
    [] OTHER -> Command(d.inner, "", d.args[1], NoOptions)

\* An Admin method runs up to the point where the db handle has the
\* command: h0 is the heap when it is called, db its db handle, r the heap
\* it leaves and the options object it hands on.
AdminCallWith(name, arguments, d, h0, db, r) ==
  /\ Ready
  /\ heap' = r.heap
  /\ call' = [NoCall EXCEPT !.heap0 = h0, !.db = db, !.passed = r.ref,
                            !.name = name, !.kind = "admin",
                            !.arguments = arguments, !.route = d.route,
                            !.inner = d.inner, !.args = d.args,
                            !.layers = IF d.route = "direct" THEN 0
                                       ELSE IF d.inner = "serverInfo" THEN 2
                                       ELSE 1]
  /\ phase' = "pending"
  /\ issued' = << InnerCommand(d) >>
  /\ returned' = IF d.route = "direct" THEN dbHandle_returns(d.args)
                 ELSE IF executeOperation_mode(d.args) = "callback"
                      THEN "undefined" ELSE "promise"
  /\ promise' = IF d.route = "executeOperation"
                   /\ executeOperation_mode(d.args) = "promise"
                THEN [NoPromise EXCEPT !.state = "pending"]
                ELSE NoPromise
  /\ UNCHANGED << aspects, loaded, reply, doneCalls, doneSync, userCalls,
                  thrown, bags, instances >>

\* An Admin method that touches no options object.
AdminCall(name, arguments, d) ==
  AdminCallWith(name, arguments, d, NoHeap, NoDb,
                [heap |-> NoHeap, ref |-> Undefined])

Call_command ==
  /\ Ready
  /\ \E t \in Tails : AdminCall("command", << CommandArg >> \o t,
                             Admin_command(<< CommandArg >> \o t))

Call_buildInfo ==
  /\ Ready
  /\ \E a \in CallbackOnly : AdminCall("buildInfo", a, Admin_buildInfo(a))

Call_serverInfo ==
  /\ Ready
  /\ \E a \in CallbackOnly : AdminCall("serverInfo", a, Admin_serverInfo(a))

Call_serverStatus ==
  /\ Ready
  /\ \E a \in CallbackOnly : AdminCall("serverStatus", a, Admin_serverStatus(a))

Call_ping ==
  /\ Ready
  /\ \E t \in Tails : AdminCall("ping", t, Admin_ping(t))

Call_addUser ==
  /\ Ready
  /\ \E t \in Tails, o \in WriteConcernInputs, db \in DbHandles,
        d \in DbWriteConcerns :
       LET arguments == << Str("username"), Str("password") >> \o t
           h0 == CallerHeap(arguments, o, db, d)
       IN AdminCallWith("addUser", arguments, Admin_addUser(arguments),
                        h0, db, Admin_addUser_options(h0, arguments, db))

Call_removeUser ==
  /\ Ready
  /\ \E t \in Tails, o \in WriteConcernInputs, db \in DbHandles,
        d \in DbWriteConcerns :
       LET arguments == << Str("username") >> \o t
           h0 == CallerHeap(arguments, o, db, d)
       IN AdminCallWith("removeUser", arguments, Admin_removeUser(arguments),
                        h0, db, Admin_removeUser_options(h0, arguments, db))

Call_validateCollection ==
  /\ Ready
  /\ \E t \in Tails, o \in AdminOptionInputs :
     AdminCall("validateCollection", << Str("collectionName") >> \o t,
               Admin_validateCollection(<< Str("collectionName") >> \o t, o))

Call_listDatabases ==
  /\ Ready
  /\ \E t \in Tails, o \in AdminOptionInputs :
     AdminCall("listDatabases", t, Admin_listDatabases(t, o))

Call_replSetGetStatus ==
  /\ Ready
  /\ \E a \in CallbackOnly :
     AdminCall("replSetGetStatus", a, Admin_replSetGetStatus(a))

(***************************************************************************)
(* The collaborator answers                                                *)
(***************************************************************************)
\* (err, r) => updateCallback(err, r, callback) and its delete twin:
\* common_functions is outside the sources; the result is handed on.
commonCallback_onReply(r) ==
  IF ~LooseEqNull(r.err)
  THEN << Invocation(r.err, Null) >>
  ELSE << Invocation(Null, ReplyValue(r)) >>

\* The invocations of the completion callback that the answer r causes.
OnReply(c, r) ==
  CASE c.name = "SetProfilingLevelOperation" ->
         SetProfilingLevelOperation_onReply(c.level, r.err, r.doc)
    [] c.name \in {"UpdateOneOperation", "UpdateManyOperation",
                   "DeleteOneOperation", "DeleteManyOperation"} ->
         commonCallback_onReply(r)
    [] c.inner = "serverStatus" -> serverStatus_onReply(r.err, r.doc)
    [] c.inner = "replSetGetStatus" -> replSetGetStatus_onReply(r.err, r.doc)
    [] c.inner = "validateCollection" -> validateCollection_onReply(r.err, r.doc)
    [] OTHER -> << Invocation(r.err, ReplyValue(r)) >>

RECURSIVE Deliver(_, _)
\* An invocation handed up through n nested executeOperation calls.
Deliver(inv, n) ==
  IF n = 0 THEN inv ELSE Deliver(executeOperation_deliver(inv), n - 1)

\* The promise after its resolve/reject has been called for each invocation.
Settle(p, invs) ==
  IF Len(invs) = 0 THEN p
  ELSE LET first == invs[1]
       IN [state |-> IF ~LooseEqNull(first.err) THEN "rejected" ELSE "fulfilled",
           value |-> IF ~LooseEqNull(first.err) THEN first.err ELSE first.result,
           settled |-> p.settled + Len(invs)]

CollaboratorReply ==
  /\ phase = "pending"
  /\ \E r \in Replies :
       LET done == OnReply(call, r)
           out  == [i \in 1..Len(done) |-> Deliver(done[i], call.layers)]
       IN /\ reply' = r
          /\ doneCalls' = doneCalls \o done
          /\ userCalls' = IF call.kind = "admin"
                             /\ LastIsFunction(call.args)
                          THEN userCalls \o out
                          ELSE userCalls
          /\ promise' = IF promise.state = "pending"
                        THEN Settle(promise, out)
                        ELSE promise
  /\ phase' = "completed"
  /\ UNCHANGED << aspects, loaded, call, issued, doneSync, returned, heap,
                  thrown, bags, instances >>

\* The call is over; its operation instance is discarded.
Discard ==
  /\ phase \in {"completed", "thrown", "shared"}
  /\ call' = NoCall
  /\ phase' = "idle"
  /\ issued' = << >>
  /\ reply' = NoReply
  /\ doneCalls' = << >>
  /\ doneSync' = FALSE
  /\ userCalls' = << >>
  /\ promise' = NoPromise
  /\ returned' = ""
  /\ heap' = NoHeap
  /\ thrown' = Undefined
  /\ bags' = NoBags
  /\ instances' = NoInstances
  /\ UNCHANGED << aspects, loaded >>

Next ==
  \/ LoadModule
  \/ ShareOptions
  \/ ConstructInstance
  \/ ExecuteInstance
  \/ UpdateOperation_execute
  \/ DeleteOperation_execute
  \/ UpdateOneOperation_execute
  \/ UpdateManyOperation_execute
  \/ DeleteOneOperation_execute
  \/ DeleteManyOperation_execute
  \/ SetProfilingLevelOperation_execute
  \/ Call_command
  \/ Call_buildInfo
  \/ Call_serverInfo
  \/ Call_serverStatus
  \/ Call_ping
  \/ Call_addUser
  \/ Call_removeUser
  \/ Call_validateCollection
  \/ Call_listDatabases
  \/ Call_replSetGetStatus
  \/ CollaboratorReply
  \/ Discard

Spec == Init /\ [][Next]_vars

(***************************************************************************)
(* Retry eligibility as the executor decides it (the executor is outside   *)
(* the sources: the rule is the specification's).                          *)
(***************************************************************************)
\* operation.canRetryWrite: the getter of the bulk classes; the command
\* classes define none.
canRetryWrite(c) ==
  CASE c.name = "UpdateOperation" -> UpdateOperation_canRetryWrite(c.operations)
    [] c.name = "DeleteOperation" ->
         DeleteOperation_canRetryWrite(c.definition, c.operations)
    [] OTHER -> Undefined

\* The operation may be offered for automatic retry.
EligibleForRetry(table, c) ==
  /\ hasAspect(table, c.name, "RETRYABLE")
  /\ c.name \in BulkTypes => canRetryWrite(c) = JSTrue

\* The defineAspects call of type t has run.
Registered(t) == \E i \in 1..loaded : Registrations[i].type = t

(***************************************************************************)
(* Properties                                                              *)
(***************************************************************************)
InFlight(name) == call.kind = "operation" /\ call.name = name

Helper(name) == call.kind = "admin" /\ call.inner = name

\* C1: for every array of update sub-operations held by an UpdateOperation,
\* the empty array included, canRetryWrite is true if and only if every
\* element has multi absent or equal to false.
C1_UpdateCanRetryWrite ==
  InFlight("UpdateOperation") =>
    LET ops == call.operations
        safe == \A i \in DOMAIN ops : ops[i].multi \in {Undefined, JSFalse}
    IN /\ safe => canRetryWrite(call) = JSTrue
       /\ ~safe => canRetryWrite(call) = JSFalse

C1_Witness ==
  /\ InFlight("UpdateOperation")
  /\ Len(call.operations) = 2
  /\ call.operations[1].multi = Undefined
  /\ call.operations[2].multi = JSTrue
  /\ canRetryWrite(call) = JSFalse

\* C2: for every array of delete sub-operations held by a DeleteOperation,
\* canRetryWrite is true if and only if every element has limit absent or
\* greater than 0.
C2_DeleteCanRetryWrite ==
  InFlight("DeleteOperation") =>
    LET ops == call.operations
        safe == \A i \in DOMAIN ops :
                  \/ ops[i].limit = Undefined
                  \/ ops[i].limit.type = "number" /\ ops[i].limit.num > 0
    IN /\ safe => canRetryWrite(call) = JSTrue
       /\ ~safe => canRetryWrite(call) = JSFalse

\* C3: an operation is eligible for automatic retry only if its type
\* declares RETRYABLE and, for bulk shapes, canRetryWrite is true; the
\* "many" operations and SetProfilingLevelOperation are never eligible
\* whatever their options or sub-operations; UpdateOperation,
\* UpdateOneOperation, DeleteOperation and DeleteOneOperation declare
\* RETRYABLE; the aspect set of a type never changes after registration.
C3_EligibilityState ==
  /\ call.kind = "operation" =>
       /\ EligibleForRetry(aspects, call) => "RETRYABLE" \in aspects[call.name]
       /\ EligibleForRetry(aspects, call) /\ call.name \in BulkTypes
            => canRetryWrite(call) = JSTrue
       /\ call.name \in {"UpdateManyOperation", "DeleteManyOperation",
                         "SetProfilingLevelOperation"}
            => ~EligibleForRetry(aspects, call)
  /\ \A t \in {"UpdateOperation", "UpdateOneOperation", "DeleteOperation",
               "DeleteOneOperation"} :
       Registered(t) => "RETRYABLE" \in aspects[t]
  /\ \A t \in {"UpdateManyOperation", "DeleteManyOperation",
               "SetProfilingLevelOperation"} :
       "RETRYABLE" \notin aspects[t]

C3_AspectsFrozen ==
  \A t \in OperationTypes : Registered(t) => aspects'[t] = aspects[t]

C3_RetryEligibility == [] C3_EligibilityState /\ [][C3_AspectsFrozen]_vars

C3_Witness ==
  /\ InFlight("UpdateManyOperation")
  /\ call.options.multi = JSTrue
  /\ Registered("UpdateManyOperation")
  /\ "WRITE_OPERATION" \in aspects["UpdateManyOperation"]
  /\ ~EligibleForRetry(aspects, call)

\* The operations and helpers whose completion callback the code of the
\* sources invokes or hands to the collaborator.
C4_Entry ==
  \/ InFlight("UpdateOperation")
  \/ InFlight("DeleteOperation")
  \/ InFlight("SetProfilingLevelOperation")
  \/ Helper("serverStatus")
  \/ Helper("replSetGetStatus")
  \/ Helper("validateCollection")

\* C4: given that the collaborator calls back exactly once, the completion
\* callback fires exactly once per execute, never twice, and never before
\* the collaborator call the execute issued has completed.
C4_DoneExactlyOnce ==
  C4_Entry =>
    /\ Len(doneCalls) <= 1
    /\ phase = "completed" => Len(doneCalls) = 1
    /\ phase = "pending" => doneCalls = << >>
    /\ (doneCalls # << >> /\ issued # << >>) => reply \in Replies

C4_Witness ==
  /\ Helper("replSetGetStatus")
  /\ phase = "completed"
  /\ reply.err = Null
  /\ reply.doc.ok = Num(1)
  /\ issued # << >>
  /\ doneCalls = << Invocation(Null, DocRef) >>

\* C5: execute never calls done synchronously before it returns, whatever
\* the operation type and input, an unrecognized profiling level included.
C5_NeverSynchronous == doneSync = FALSE

\* The operations and helpers whose failure paths are code of the sources.
C6_Entry ==
  \/ InFlight("SetProfilingLevelOperation")
  \/ Helper("serverStatus")
  \/ Helper("replSetGetStatus")
  \/ Helper("validateCollection")

\* C6: every failure path ends in exactly one invocation of the completion
\* callback with a non-null error and a null result, done(error, null); no
\* failure is swallowed and none delivers a non-null result value.
C6_FailureIsErrorAndNull ==
  (C6_Entry /\ phase = "completed") =>
    /\ Len(doneCalls) = 1
    /\ ~LooseEqNull(reply.err) => ~LooseEqNull(doneCalls[1].err)
    /\ ~LooseEqNull(doneCalls[1].err) => LooseEqNull(doneCalls[1].result)

\* The callback received an error and neither the document nor the level.
DeliversError(inv) ==
  /\ ~LooseEqNull(inv.err)
  /\ inv.result # DocRef
  /\ inv.result.type # "string"

\* The answer has no transport error and its document has ok !== 1.
NotOkReply ==
  /\ phase = "completed"
  /\ reply \in Replies
  /\ LooseEqNull(reply.err)
  /\ reply.doc.ok # Num(1)

\* C7 as stated: with no transport error and ok !== 1 (0, absent or any
\* other value), serverStatus, replSetGetStatus, setProfilingLevel and
\* validateCollection each deliver an error and never the document or level.
C7_NotOkIsError_AsStated ==
  (NotOkReply /\ C6_Entry) =>
    \A i \in DOMAIN doneCalls : DeliversError(doneCalls[i])

\* C7 (amended): with no transport error and ok !== 1, serverStatus,
\* replSetGetStatus and setProfilingLevel each deliver an error and never
\* the document or level; validateCollection does so when ok === 0, and for
\* an absent or other ok value it decides by its result and valid checks
\* alone, delivering the document as success when they pass.
C7_NotOkIsError ==
  /\ (NotOkReply /\ C6_Entry /\ ~Helper("validateCollection")) =>
       /\ doneCalls # << >>
       /\ \A i \in DOMAIN doneCalls : DeliversError(doneCalls[i])
  /\ (NotOkReply /\ Helper("validateCollection")) =>
       /\ doneCalls # << >>
       /\ reply.doc.ok = Num(0) => DeliversError(doneCalls[1])
       /\ ( /\ reply.doc.ok # Num(0)
            /\ reply.doc.result \in {Undefined, Str("all good")}
            /\ reply.doc.valid \in {Undefined, JSTrue} )
          => doneCalls = << Invocation(Null, DocRef) >>

C7_Witness ==
  /\ Helper("serverStatus")
  /\ NotOkReply
  /\ reply.doc.ok = Undefined
  /\ doneCalls = << Invocation(toError(reply.doc), JSFalse) >>

\* C8: when the collaborator calls back with a non-null error, serverStatus,
\* replSetGetStatus, validateCollection and SetProfilingLevelOperation pass
\* that same error on unmodified, whatever the accompanying document;
\* toError is applied only when the error is null and the document has
\* ok !== 1.
C8_ErrorPassedThrough ==
  (C6_Entry /\ phase = "completed" /\ reply \in Replies) =>
    /\ ~LooseEqNull(reply.err) =>
         /\ Len(doneCalls) = 1
         /\ doneCalls[1].err = reply.err
    /\ (\E i \in DOMAIN doneCalls : doneCalls[i].err = toError(reply.doc)) =>
         /\ LooseEqNull(reply.err)
         /\ reply.doc.ok # Num(1)

C8_Witness ==
  /\ Helper("replSetGetStatus")
  /\ phase = "completed"
  /\ reply.err = TransportError
  /\ reply.hasDoc
  /\ reply.doc.ok = Num(0)
  /\ doneCalls = << Invocation(TransportError, JSFalse) >>

\* What the completion (error, result) of the invocation means for a caller.
SameOutcome(u, d) ==
  IF ~LooseEqNull(d.err)
  THEN u.err = d.err
  ELSE LooseEqNull(u.err) /\ u.result = d.result

\* C9: for every Admin method exactly one completion path fires: when the
\* final argument of the call is a function, it is invoked exactly once with
\* (error, result) and no promise is returned; otherwise a promise is
\* returned that settles exactly once with the error or result a callback
\* would have received; listDatabases called with only a callback included.
C9_OneCompletionPath ==
  call.kind = "admin" =>
    IF LastIsFunction(call.arguments)
    THEN /\ returned = "undefined"
         /\ promise = NoPromise
         /\ phase = "pending" => userCalls = << >>
         /\ phase = "completed" =>
              /\ Len(userCalls) = 1
              /\ Len(doneCalls) = 1
              /\ SameOutcome(userCalls[1], doneCalls[1])
    ELSE /\ returned = "promise"
         /\ userCalls = << >>
         /\ phase = "pending" => promise.state = "pending"
         /\ phase = "completed" =>
              /\ promise.settled = 1
              /\ Len(doneCalls) = 1
              /\ promise.state =
                   IF ~LooseEqNull(doneCalls[1].err) THEN "rejected"
                   ELSE "fulfilled"
              /\ promise.value =
                   IF ~LooseEqNull(doneCalls[1].err) THEN doneCalls[1].err
                   ELSE doneCalls[1].result

C9_Witness ==
  /\ call.kind = "admin"
  /\ call.name = "listDatabases"
  /\ call.arguments = << UserCallback >>
  /\ phase = "completed"
  /\ reply.err = TransportError
  /\ Len(userCalls) = 1
  /\ userCalls[1].err = TransportError

\* C10: a SetProfilingLevelOperation whose level is not 'off', 'slow_only'
\* or 'all' issues no command in any execution and completes with an error;
\* the profile value 0 its constructor computed is never sent.
C10_IllegalLevelIssuesNothing ==
  (InFlight("SetProfilingLevelOperation")
     /\ call.level \notin {Str("off"), Str("slow_only"), Str("all")}) =>
    /\ issued = << >>
    /\ phase = "completed"
    /\ Len(doneCalls) = 1
    /\ ~LooseEqNull(doneCalls[1].err)

C10_Witness ==
  /\ InFlight("SetProfilingLevelOperation")
  /\ call.level = Str("bogus")
  /\ SetProfilingLevelOperation_profile(call.level) = Num(0)
  /\ issued = << >>
  /\ doneCalls = << Invocation(IllegalLevelError, Undefined) >>

\* C11: for a recognized level SetProfilingLevelOperation issues exactly
\* the command {profile: N} with off -> 0, slow_only -> 1, all -> 2, and
\* issues it exactly once per execute.
C11_ProfileCommand ==
  InFlight("SetProfilingLevelOperation") =>
    /\ call.level = Str("off") =>
         issued = << Command("executeCommand", "profile", Num(0), NoOptions) >>
    /\ call.level = Str("slow_only") =>
         issued = << Command("executeCommand", "profile", Num(1), NoOptions) >>
    /\ call.level = Str("all") =>
         issued = << Command("executeCommand", "profile", Num(2), NoOptions) >>

C11_Witness ==
  /\ InFlight("SetProfilingLevelOperation")
  /\ call.level = Str("slow_only")
  /\ phase = "completed"
  /\ Len(issued) = 1
  /\ issued[1].value = Num(1)

\* C12: when the server answers a setProfilingLevel command with no error
\* and ok = 1, the caller receives the symbolic level string given at
\* construction, never the integer profile value; with ok !== 1 and no
\* transport error, the caller receives the generic command-failure error.
C12_LevelReturned ==
  (InFlight("SetProfilingLevelOperation") /\ phase = "completed"
     /\ reply \in Replies /\ LooseEqNull(reply.err)) =>
    /\ Len(doneCalls) = 1
    /\ reply.doc.ok = Num(1) =>
         /\ LooseEqNull(doneCalls[1].err)
         /\ doneCalls[1].result = call.level
         /\ doneCalls[1].result.type = "string"
    /\ reply.doc.ok # Num(1) =>
         doneCalls[1].err = Obj("Error with profile command")

C12_Witness ==
  /\ InFlight("SetProfilingLevelOperation")
  /\ phase = "completed"
  /\ reply.err = Null
  /\ reply.doc.ok = Num(1)
  /\ doneCalls = << Invocation(Undefined, Str("all")) >>

\* The outcome the acceptance checks (a) to (d), taken in that order, give
\* for a response document; validFails is the reading of check (d).
C13_Outcome(doc, validFails) ==
  IF doc.ok = Num(0)
  THEN Invocation(Obj("Error with validate command"), Null)
  ELSE IF doc.result # Undefined /\ doc.result.type # "string"
  THEN Invocation(Obj("Error with validation data"), Null)
  ELSE IF doc.result \in {Str("exception caught"), Str("index corrupt")}
  THEN Invocation(Obj("Error: invalid collection"), Null)
  ELSE IF validFails
  THEN Invocation(Obj("Error: invalid collection"), Null)
  ELSE Invocation(Null, DocRef)

ValidateReplied ==
  /\ Helper("validateCollection")
  /\ phase = "completed"
  /\ reply \in Replies
  /\ LooseEqNull(reply.err)

\* C13 as stated: validateCollection applies its checks to a
\* transport-successful response in the order (a) ok === 0, (b) result
\* present but not a string, (c) result matching /exception|corrupt/,
\* (d) valid explicitly false; the error delivered is that of the first
\* failing check, and if none fails the raw document is delivered.
C13_ValidateOrder_AsStated ==
  ValidateReplied =>
    doneCalls = << C13_Outcome(reply.doc, reply.doc.valid = JSFalse) >>

\* C13: the same order of checks, where check (d) fails for every valid
\* value that is present and falsy (false, and 0 as well), not for false
\* alone.
C13_ValidateOrder ==
  ValidateReplied =>
    doneCalls = << C13_Outcome(reply.doc,
                     reply.doc.valid \in {JSFalse, Num(0), Str("")}) >>

C13_Witness ==
  /\ Helper("validateCollection")
  /\ phase = "completed"
  /\ reply.err = Null
  /\ reply.doc.ok = Num(1)
  /\ reply.doc.result = Str("all good")
  /\ reply.doc.valid = Num(0)
  /\ doneCalls = << Invocation(InvalidCollectionError, Null) >>

\* An addUser or removeUser call has resolved its write-concern options.
UserCall == call.kind = "admin" /\ call.name \in {"addUser", "removeUser"}

\* The caller passed an options object.
OptionsPassed ==
  \E i \in 1..Len(call.arguments) : call.arguments[i] = OptionsArg

WriteConcernKeys(o) ==
  [w |-> o.w, wtimeout |-> o.wtimeout, j |-> o.j, fsync |-> o.fsync]

NoWriteConcernKeys == WriteConcernKeys(NoWriteConcern)

\* C14: when the options specify none of w, wtimeout, j, fsync, the
\* resolver's result carries the values present on the db's writeConcern.
C14_DefaultsOverlaid ==
  (UserCall /\ call.db.writeConcern = DbWriteConcernRef
     /\ WriteConcernKeys(IF OptionsPassed THEN call.heap0[OptionsArg]
                         ELSE NoWriteConcern) = NoWriteConcernKeys) =>
    WriteConcernKeys(heap[call.passed])
      = WriteConcernKeys(call.heap0[DbWriteConcernRef])

\* C15: when the options contain any of w, wtimeout, j, fsync, tested by
\* presence so that j: false or w: 0 count, the resolver's result is a
\* shallow copy equal to the input and no db default replaces any key.
C15_ExplicitKept ==
  (UserCall /\ OptionsPassed
     /\ WriteConcernKeys(call.heap0[OptionsArg]) # NoWriteConcernKeys) =>
    /\ call.passed # OptionsArg
    /\ WriteConcernKeys(heap[call.passed])
         = WriteConcernKeys(call.heap0[OptionsArg])

C15_Witness ==
  /\ UserCall
  /\ OptionsPassed
  /\ call.db.writeConcern = DbWriteConcernRef
  /\ call.heap0[DbWriteConcernRef].j = JSTrue
  /\ call.heap0[OptionsArg].j = JSFalse
  /\ call.heap0[OptionsArg].w = Num(0)
  /\ heap[call.passed].j = JSFalse
  /\ heap[call.passed].w = Num(0)
  /\ heap[call.passed].dbName = Str("admin")

\* C16: the resolver never mutates its input: after addUser or removeUser
\* has resolved the options and set dbName = 'admin' on the result, the
\* caller's options object and the db's writeConcern object have exactly
\* the keys and values they had before the call.
C16_InputsUntouched ==
  UserCall =>
    /\ heap[OptionsArg] = call.heap0[OptionsArg]
    /\ heap[DbWriteConcernRef] = call.heap0[DbWriteConcernRef]

C16_Witness ==
  /\ UserCall
  /\ call.name = "removeUser"
  /\ OptionsPassed
  /\ call.db.writeConcern = DbWriteConcernRef
  /\ heap[call.passed].dbName = Str("admin")
  /\ heap[OptionsArg].dbName = Undefined
  /\ heap[OptionsArg].w = Num(1)
  /\ heap[DbWriteConcernRef].w = Num(2)

OneOrMany ==
  call.kind = "operation"
    /\ call.name \in {"UpdateOneOperation", "UpdateManyOperation",
                      "DeleteOneOperation", "DeleteManyOperation"}

\* The caller's arguments violate the precondition of the operation: an
\* update document without atomic operators, a filter that is no mapping.
InvalidArguments ==
  \/ call.name \in {"UpdateOneOperation", "UpdateManyOperation"}
       /\ \A i \in 1..Len(call.update) : call.update[i] \notin {"$set", "$inc", "$unset"}
  \/ call.name \in {"DeleteOneOperation", "DeleteManyOperation"}
       /\ (call.filter.type # "object" \/ call.filter = Null)

\* C17: constructing UpdateOne / UpdateMany with an update document that
\* lacks atomic operators, or DeleteOne / DeleteMany with a filter that is
\* not a mapping, fails synchronously at construction: a validation error
\* is thrown, no server call is made, and nothing reaches the callback.
C17_ConstructionValidates ==
  (OneOrMany /\ InvalidArguments) =>
    /\ phase = "thrown"
    /\ thrown # Undefined
    /\ issued = << >>
    /\ doneCalls = << >>

\* An operation of the four has handed its command to its delegate.
Delegated == OneOrMany /\ Len(issued) = 1

\* C18 as stated: whatever multi / single value the caller supplied, the
\* options handed to the delegate have multi = false for UpdateOne,
\* multi = true for UpdateMany, single = true for DeleteOne and
\* single = false for DeleteMany.
C18_ForcedSemantics_AsStated ==
  Delegated =>
    /\ call.name = "UpdateOneOperation" => issued[1].options.multi = JSFalse
    /\ call.name = "UpdateManyOperation" => issued[1].options.multi = JSTrue
    /\ call.name = "DeleteOneOperation" => issued[1].options.single = JSTrue
    /\ call.name = "DeleteManyOperation" => issued[1].options.single = JSFalse

\* C18: whatever multi / single value the caller supplied, the options
\* handed to the delegate have multi = false for UpdateOne, multi = true
\* for UpdateMany and single = true for DeleteOne; for DeleteMany they have
\* single = false unless the caller supplied single: true.
C18_ForcedSemantics ==
  Delegated =>
    /\ call.name = "UpdateOneOperation" => issued[1].options.multi = JSFalse
    /\ call.name = "UpdateManyOperation" => issued[1].options.multi = JSTrue
    /\ call.name = "DeleteOneOperation" => issued[1].options.single = JSTrue
    /\ (call.name = "DeleteManyOperation" /\ call.supplied.single # JSTrue) =>
         issued[1].options.single = JSFalse

C18_Witness ==
  /\ Delegated
  /\ call.name = "UpdateOneOperation"
  /\ call.supplied.multi = JSTrue
  /\ issued[1].options.multi = JSFalse

\* C19: DeleteManyOperation.execute leaves a boolean single supplied by the
\* caller as it is and sets single to false only when the caller's value is
\* not a boolean (absent, null, a number, a string); deleteMany with
\* single: true is dispatched as a single-document delete.
C19_DeleteManySingle ==
  (Delegated /\ call.name = "DeleteManyOperation") =>
    /\ issued[1].target = "removeDocuments"
    /\ issued[1].options.multi = call.supplied.multi
    /\ call.supplied.single \in {JSTrue, JSFalse} =>
         issued[1].options.single = call.supplied.single
    /\ call.supplied.single \in {Undefined, Null, Num(1), Str("yes")} =>
         issued[1].options.single = JSFalse

C19_Witness ==
  /\ Delegated
  /\ call.name = "DeleteManyOperation"
  /\ call.supplied.single = JSTrue
  /\ issued[1].options.single = JSTrue
  /\ phase = "completed"

\* C20: the options bag of an operation is owned by that instance alone:
\* for instances built from the same options object of the caller and
\* executed in any interleaving, the execute of one never changes the
\* multi / single value the other instance or its delegate observes, and
\* never changes the caller's options object.
C20_BagsNotShared ==
  phase = "shared" =>
    /\ bags[OptionsArg] = call.supplied
    /\ \A i \in InstanceIds :
         /\ instances[i].state = "constructed" =>
              bags[instances[i].options] = call.supplied
         /\ instances[i].state = "executed" =>
              /\ bags[instances[i].delegate] = instances[i].sent
              /\ instances[i].sent
                   = Operation_options(instances[i].type, call.supplied)

C20_Witness ==
  /\ phase = "shared"
  /\ instances[1].type = "UpdateOneOperation"
  /\ instances[2].type = "UpdateManyOperation"
  /\ instances[1].state = "executed"
  /\ instances[2].state = "executed"
  /\ bags[instances[1].delegate].multi = JSFalse
  /\ bags[instances[2].delegate].multi = JSTrue
  /\ bags[OptionsArg].multi = Undefined

====
